---- MODULE Spec2Model ----
(***************************************************************************)
(* Model of src/src/App.tsx: the label extractor's batch run               *)
(* (handleExtract), the retry loop around fetch, the parse of the answer   *)
(* into rows, the merge into allExtracted and the cell edit.               *)
(*                                                                         *)
(* Text is modelled as a sequence of tokens: "," and "\n" are the          *)
(* delimiters, " " and "\n" are white space, every other token stands for  *)
(* a run of characters that holds no delimiter.  A cell is the sequence of *)
(* tokens between two delimiters, a row a sequence of cells.               *)
(***************************************************************************)
EXTENDS Integers, Sequences, FiniteSets, TLC

VARIABLES imageFiles, extractedData, loading, error, allExtracted,
          runs, history, editLog, submitted, download

vars == <<imageFiles, extractedData, loading, error, allExtracted,
          runs, history, editLog, submitted, download>>

(***************************************************************************)
(* Bounds of the model.                                                    *)
(***************************************************************************)
\* longest image list a user selects
MaxImages == 2
\* images submitted to batch runs in one session
MaxSubmitted == 2
\* cell edits in one session
MaxEdits == 1

(***************************************************************************)
(* Program constants.                                                      *)
(***************************************************************************)
maxRetries == 5
initialDelay == 1000

headers ==
  << <<"Order Number">>, <<"Recipient's Name">>, <<"Phone Number">>,
     <<"Standby Phone">>, <<"State">>, <<"City">>, <<"Recipient Street">> >>

ErrNoImage == "Please select or capture at least one image first."
ErrNoExtract == "Could not extract data. Please try another image."
ErrNoData == "No data to download."
\* `An error occurred: ${err.message}` for the errors the callback throws
TerminalErrors ==
  { "An error occurred: API call failed with status: 500",
    "An error occurred: API call failed after multiple retries.",
    "An error occurred: Failed to fetch" }

(***************************************************************************)
(* String functions of the parse: String.prototype.trim and split.         *)
(***************************************************************************)
WhiteSpace == {" ", "\n"}

RECURSIVE TrimStart(_)
TrimStart(s) ==
  IF s # <<>> /\ Head(s) \in WhiteSpace THEN TrimStart(Tail(s)) ELSE s

RECURSIVE TrimEnd(_)
TrimEnd(s) ==
  IF s # <<>> /\ s[Len(s)] \in WhiteSpace
    THEN TrimEnd(SubSeq(s, 1, Len(s) - 1))
    ELSE s

Trim(s) == TrimEnd(TrimStart(s))

\* s.split(sep): the pieces between the separators; "" gives [""]
RECURSIVE Split(_, _)
Split(s, sep) ==
  IF \E i \in 1..Len(s) : s[i] = sep
    THEN LET i == CHOOSE k \in 1..Len(s) :
                    s[k] = sep /\ \A j \in 1..(k - 1) : s[j] # sep
         IN  <<SubSeq(s, 1, i - 1)>> \o Split(SubSeq(s, i + 1, Len(s)), sep)
    ELSE <<s>>

\* text.split("\n").map((row) => row.split(","))
ParseRows(text) ==
  LET lines == Split(text, "\n")
  IN  [k \in 1..Len(lines) |-> Split(lines[k], ",")]

(***************************************************************************)
(* The two updaters of allExtracted.                                       *)
(***************************************************************************)
MergeAppendAll(prev, rows) == prev \o rows

MergeReplace(prev, rows) == rows

MergeAlwaysSlice(prev, rows) == prev \o SubSeq(rows, 2, Len(rows))

Merge(prev, rows) ==
  IF Len(prev) = 0 THEN rows ELSE prev \o SubSeq(rows, 2, Len(rows))

EditCellWholeRow(prev, rowIdx, colIdx, value) ==
  [prev EXCEPT ![rowIdx] = [c \in 1..Len(prev[rowIdx]) |-> value]]

EditCell(prev, rowIdx, colIdx, value) ==
  [prev EXCEPT ![rowIdx] = [prev[rowIdx] EXCEPT ![colIdx] = value]]

(***************************************************************************)
(* The answers of the inference service.                                   *)
(***************************************************************************)
RECURSIVE Join(_, _)
Join(parts, sep) ==
  IF parts = <<>> THEN <<>>
  ELSE IF Len(parts) = 1 THEN parts[1]
  ELSE parts[1] \o <<sep>> \o Join(Tail(parts), sep)

CsvText(rows) == Join([k \in 1..Len(rows) |-> Join(rows[k], ",")], "\n")

DataA ==
  << <<"MX1">>, <<"Ada">>, <<"0801">>, <<"N/A">>, <<"Lagos">>, <<"Ikeja">>,
     <<"1", " ", "Allen">> >>

\* header line and one data line, as the prompt asks, with white space around
TextA == <<" ">> \o CsvText(<<headers, DataA>>) \o <<"\n">>
\* three lines of two cells
TextShort == CsvText(<< << <<"H1">>, <<"H2">> >>, << <<"A">>, <<"B">> >>,
                        << <<"C">>, <<"D">> >> >>)
\* no text at all
TextEmpty == <<>>

Texts == {TextA, TextShort, TextEmpty}

\* An optional value is a sequence of length 0 (undefined) or 1.
Undefined == <<>>
Some(x) == <<x>>

ResultOfText(t) ==
  [candidates |-> Some(<<[content |-> Some([parts |-> Some(<<[text |-> Some(t)]>>)])]>>)]

ResultsNoPath ==
  { [candidates |-> Undefined],
    [candidates |-> Some(<<>>)],
    [candidates |-> Some(<<[content |-> Undefined]>>)],
    [candidates |-> Some(<<[content |-> Some([parts |-> Undefined])]>>)],
    [candidates |-> Some(<<[content |-> Some([parts |-> Some(<<>>)])]>>)] }

ResultNoText ==
  [candidates |-> Some(<<[content |-> Some([parts |-> Some(<<[text |-> Undefined]>>)])]>>)]

Results == {ResultOfText(t) : t \in Texts} \cup ResultsNoPath \cup {ResultNoText}

\* the condition of the if at lines 101-107
HasParts(result) ==
  /\ result.candidates # Undefined
  /\ Len(result.candidates[1]) > 0
  /\ result.candidates[1][1].content # Undefined
  /\ result.candidates[1][1].content[1].parts # Undefined
  /\ Len(result.candidates[1][1].content[1].parts[1]) > 0

PartText(result) == result.candidates[1][1].content[1].parts[1][1].text

(***************************************************************************)
(* The retry loop.                                                         *)
(***************************************************************************)
Statuses == {"200", "429", "500"}
Outcomes == Statuses \cup {"fault"}

Ok(status) == status = "200"

RECURSIVE Pow2(_)
Pow2(n) == IF n = 0 THEN 1 ELSE 2 * Pow2(n - 1)

DelayLinear(retries) == initialDelay * (retries + 1)

\* initialDelay * Math.pow(2, retries)
Delay(retries) == initialDelay * Pow2(retries)

LoopContinuesOneMore(retries) == retries <= maxRetries

\* while (retries < maxRetries)
LoopContinues(retries) == retries < maxRetries

CatchRetriesLikeThrottle(retries) == retries < maxRetries

\* if (retries < maxRetries - 1) in the catch
CatchRetries(retries) == retries < maxRetries - 1

(***************************************************************************)
(* One run of handleExtract: the image list it iterates, the position in   *)
(* it, the place the callback is at, and the locals of the retry loop.     *)
(*   attempts  requests issued for the current image                       *)
(*   delays    the waits made for the current image                        *)
(*   cycles    images of the batch whose callback reached resolveReader    *)
(*   fail      why the callback's promise was rejected, failedAt the image *)
(***************************************************************************)
Files == {"label.png"}

RECURSIVE SeqsUpTo(_, _)
SeqsUpTo(S, n) ==
  IF n = 0 THEN {<<>>}
  ELSE LET shorter == SeqsUpTo(S, n - 1)
       IN  shorter \cup {Append(s, x) : s \in {t \in shorter : Len(t) = n - 1}, x \in S}

NewRun(batch) ==
  [batch |-> batch, idx |-> 1, pc |-> "reading", retries |-> 0,
   apiResponse |-> "undefined", attempts |-> 0, delays |-> <<>>,
   cycles |-> 0, fail |-> "none", failedAt |-> 0]

RemoveAt(s, i) == SubSeq(s, 1, i - 1) \o SubSeq(s, i + 1, Len(s))

\* download: the file the handler that ran last handed to the browser
NoDownload == [name |-> "", type |-> "", sheetName |-> "", text |-> <<>>,
               sheet |-> <<>>]

Init ==
  /\ imageFiles = <<>>
  /\ extractedData = <<>>
  /\ loading = FALSE
  /\ error = ""
  /\ allExtracted = <<>>
  /\ runs = <<>>
  /\ history = <<>>
  /\ editLog = <<>>
  /\ submitted = 0
  /\ download = NoDownload

(***************************************************************************)
(* File selection: the multiple-file input replaces the list, the camera   *)
(* input appends to it.                                                    *)
(***************************************************************************)
SelectFiles(files) ==
  /\ files # imageFiles
  /\ imageFiles' = files
  /\ UNCHANGED <<extractedData, loading, error, allExtracted, runs, history,
                 editLog, submitted>>

CaptureImage(file) ==
  /\ Len(imageFiles) < MaxImages
  /\ imageFiles' = Append(imageFiles, file)
  /\ UNCHANGED <<extractedData, loading, error, allExtracted, runs, history,
                 editLog, submitted>>

(***************************************************************************)
(* handleExtract up to its first await.                                    *)
(***************************************************************************)
ButtonDisabledOnlyWhenEmpty == imageFiles = <<>>

\* disabled={loading || imageFiles.length === 0}
ButtonDisabled == loading \/ imageFiles = <<>>

HandleExtractNoCheck ==
  /\ extractedData' = <<>>
  /\ error' = ""
  /\ loading' = TRUE
  /\ runs' = Append(runs, NewRun(imageFiles))
  /\ submitted' = submitted + Len(imageFiles)
  /\ UNCHANGED <<imageFiles, allExtracted, history, editLog>>

HandleExtractClears ==
  /\ extractedData' = <<>>
  /\ allExtracted' = <<>>
  /\ IF Len(imageFiles) = 0
       THEN /\ error' = ErrNoImage
            /\ UNCHANGED <<loading, runs, submitted>>
       ELSE /\ error' = ""
            /\ loading' = TRUE
            /\ runs' = Append(runs, NewRun(imageFiles))
            /\ submitted' = submitted + Len(imageFiles)
  /\ UNCHANGED <<imageFiles, history, editLog>>

HandleExtract ==
  /\ extractedData' = <<>>
  /\ IF Len(imageFiles) = 0
       THEN /\ error' = ErrNoImage
            /\ UNCHANGED <<loading, runs, submitted>>
       ELSE /\ error' = ""
            /\ loading' = TRUE
            /\ runs' = Append(runs, NewRun(imageFiles))
            /\ submitted' = submitted + Len(imageFiles)
  /\ UNCHANGED <<imageFiles, allExtracted, history, editLog>>

\* a click on the Extract Data button
ClickExtract ==
  /\ ~ButtonDisabled
  /\ submitted + Len(imageFiles) <= MaxSubmitted
  /\ HandleExtract

\* the handler called with nothing selected
ExtractNothing ==
  /\ imageFiles = <<>>
  /\ ~loading
  /\ error # ErrNoImage
  /\ HandleExtract

(***************************************************************************)
(* The callback of reader.onloadend, one action per await.                 *)
(***************************************************************************)
RejectedSkipsImage(run, cause) ==
  IF run.idx < Len(run.batch)
    THEN [run EXCEPT !.fail = cause, !.failedAt = run.idx, !.idx = @ + 1,
                     !.pc = "reading", !.retries = 0,
                     !.apiResponse = "undefined", !.attempts = 0,
                     !.delays = <<>>]
    ELSE [run EXCEPT !.pc = "hung", !.fail = cause, !.failedAt = run.idx]

\* a throw inside the async callback rejects the callback's own promise:
\* resolveReader is never called and the awaited promise stays pending
Rejected(run, cause) ==
  [run EXCEPT !.pc = "hung", !.fail = cause, !.failedAt = run.idx]

\* lines 95-99, after the loop
AfterLoop(run) ==
  IF run.apiResponse = "undefined" \/ ~Ok(run.apiResponse)
    THEN Rejected(run, "transport")
    ELSE [run EXCEPT !.pc = "json"]

\* the loop test and, when it passes, the fetch of line 72
EnterLoop(run) ==
  IF LoopContinues(run.retries)
    THEN [run EXCEPT !.pc = "fetching", !.attempts = @ + 1]
    ELSE AfterLoop(run)

\* the wait of lines 80-81 and 88-89
Backoff(run) ==
  [run EXCEPT !.pc = "waiting", !.delays = Append(@, Delay(run.retries))]

\* the catch of lines 86-92
Caught(run) ==
  IF CatchRetries(run.retries) THEN Backoff(run) ELSE Rejected(run, "transport")

ReaderLoadEnd(r, readOk) ==
  /\ runs[r].pc = "reading"
  /\ runs' = [runs EXCEPT ![r] =
                IF readOk THEN EnterLoop(runs[r]) ELSE Rejected(runs[r], "reader")]
  /\ UNCHANGED <<imageFiles, extractedData, loading, error, allExtracted,
                 history, editLog, submitted>>

FetchSettle(r, outcome) ==
  /\ runs[r].pc = "fetching"
  /\ runs' = [runs EXCEPT ![r] =
       IF outcome = "fault" THEN Caught(runs[r])
       ELSE LET run == [runs[r] EXCEPT !.apiResponse = outcome]
            IN  IF Ok(outcome) THEN AfterLoop(run)
                ELSE IF outcome = "429" THEN Backoff(run)
                ELSE Caught(run)]
  /\ UNCHANGED <<imageFiles, extractedData, loading, error, allExtracted,
                 history, editLog, submitted>>

BackoffElapsed(r) ==
  /\ runs[r].pc = "waiting"
  /\ runs' = [runs EXCEPT ![r] = EnterLoop([runs[r] EXCEPT !.retries = @ + 1])]
  /\ UNCHANGED <<imageFiles, extractedData, loading, error, allExtracted,
                 history, editLog, submitted>>

NextImage(run) ==
  [run EXCEPT !.idx = @ + 1, !.pc = "reading", !.retries = 0,
              !.apiResponse = "undefined", !.attempts = 0, !.delays = <<>>,
              !.cycles = @ + 1]

ResolvedStops(r) ==
  /\ runs' = RemoveAt(runs, r)
  /\ loading' = FALSE

\* resolveReader(), then the for loop goes on or setLoading(false)
Resolved(r) ==
  IF runs[r].idx < Len(runs[r].batch)
    THEN /\ runs' = [runs EXCEPT ![r] = NextImage(runs[r])]
         /\ UNCHANGED loading
    ELSE /\ runs' = RemoveAt(runs, r)
         /\ loading' = FALSE

\* apiResponse.json() rejects
JsonRejects(r) ==
  /\ runs[r].pc = "json"
  /\ runs' = [runs EXCEPT ![r] = Rejected(runs[r], "json")]
  /\ UNCHANGED <<imageFiles, extractedData, loading, error, allExtracted,
                 history, editLog, submitted>>

JsonResolves(r, result) ==
  /\ runs[r].pc = "json"
  /\ IF HasParts(result)
       THEN IF PartText(result) = Undefined
              THEN /\ runs' = [runs EXCEPT ![r] = Rejected(runs[r], "text")]
                   /\ UNCHANGED <<extractedData, loading, error, allExtracted,
                                  history>>
              ELSE LET text == Trim(PartText(result)[1])
                   IN  /\ extractedData' = text
                       /\ allExtracted' = Merge(allExtracted, ParseRows(text))
                       /\ history' = Append(history, text)
                       /\ Resolved(r)
                       /\ UNCHANGED error
       ELSE /\ error' = ErrNoExtract
            /\ Resolved(r)
            /\ UNCHANGED <<extractedData, allExtracted, history>>
  /\ UNCHANGED <<imageFiles, editLog, submitted>>

(***************************************************************************)
(* handleEditCell, called by the inputs of the table for existing cells.   *)
(***************************************************************************)
EditValues == {<<"X">>}
\* the columns whose inputs the user types in
EditCols == {1, 2}

HandleEditCell(rowIdx, colIdx, value) ==
  /\ Len(editLog) < MaxEdits
  /\ rowIdx \in 1..Len(allExtracted)
  /\ colIdx \in 1..Len(allExtracted[rowIdx])
  /\ allExtracted' = EditCell(allExtracted, rowIdx, colIdx, value)
  /\ editLog' = Append(editLog, [rowIdx |-> rowIdx, colIdx |-> colIdx,
                                  value |-> value])
  /\ UNCHANGED <<imageFiles, extractedData, loading, error, runs, history,
                 submitted>>

(***************************************************************************)
(* The exports.                                                            *)
(***************************************************************************)
DatasetEmptyNever(rows) == FALSE

\* if (allExtracted.length === 0)
DatasetEmpty(rows) == Len(rows) = 0

\* [headers.join(","), ...allExtracted.map((row) => row.join(","))].join("\n")
CsvContent(rows) ==
  Join(<<Join(headers, ",")>> \o [k \in 1..Len(rows) |-> Join(rows[k], ",")],
       "\n")

\* [headers, ...allExtracted]
WorksheetData(rows) == <<headers>> \o rows

HandleDownloadCSV ==
  /\ IF DatasetEmpty(allExtracted)
       THEN /\ error' = ErrNoData
            /\ download' = NoDownload
       ELSE /\ download' = [name |-> "extracted_data.csv",
                            type |-> "text/csv;charset=utf-8;",
                            sheetName |-> "",
                            text |-> CsvContent(allExtracted),
                            sheet |-> <<>>]
            /\ UNCHANGED error
  /\ UNCHANGED <<imageFiles, extractedData, loading, allExtracted, runs,
                 history, editLog, submitted>>

HandleDownloadExcel ==
  /\ IF DatasetEmpty(allExtracted)
       THEN /\ error' = ErrNoData
            /\ download' = NoDownload
       ELSE /\ download' = [name |-> "extracted_data.xlsx",
                            type |-> "xlsx",
                            sheetName |-> "Extracted Data",
                            text |-> <<>>,
                            sheet |-> WorksheetData(allExtracted)]
            /\ UNCHANGED error
  /\ UNCHANGED <<imageFiles, extractedData, loading, allExtracted, runs,
                 history, editLog, submitted>>

\* the download buttons are rendered when allExtracted.length > 0
ButtonsRendered == Len(allExtracted) > 0

ClickDownloadCSV == ButtonsRendered /\ HandleDownloadCSV

ClickDownloadExcel == ButtonsRendered /\ HandleDownloadExcel

\* an export handler called with no data
DownloadNothing ==
  /\ ~ButtonsRendered
  /\ ~loading
  /\ HandleDownloadCSV \/ HandleDownloadExcel

\* every handler but an export hands the browser no file
Next ==
  \/ /\ \E files \in SeqsUpTo(Files, MaxImages) : SelectFiles(files)
     /\ download' = NoDownload
  \/ /\ \E file \in Files : CaptureImage(file)
     /\ download' = NoDownload
  \/ /\ ClickExtract
     /\ download' = NoDownload
  \/ /\ ExtractNothing
     /\ download' = NoDownload
  \/ /\ \E r \in 1..Len(runs) : \E readOk \in BOOLEAN : ReaderLoadEnd(r, readOk)
     /\ download' = NoDownload
  \/ /\ \E r \in 1..Len(runs) : \E outcome \in Outcomes : FetchSettle(r, outcome)
     /\ download' = NoDownload
  \/ /\ \E r \in 1..Len(runs) : BackoffElapsed(r)
     /\ download' = NoDownload
  \/ /\ \E r \in 1..Len(runs) : JsonRejects(r)
     /\ download' = NoDownload
  \/ /\ \E r \in 1..Len(runs) : \E result \in Results : JsonResolves(r, result)
     /\ download' = NoDownload
  \/ /\ \E rowIdx \in 1..Len(allExtracted) :
         \E colIdx \in EditCols \cap (1..Len(allExtracted[rowIdx])) :
           \E value \in EditValues : HandleEditCell(rowIdx, colIdx, value)
     /\ download' = NoDownload
  \/ ClickDownloadCSV
  \/ ClickDownloadExcel
  \/ DownloadNothing

Spec == Init /\ [][Next]_vars

(***************************************************************************)
(* Properties.                                                             *)
(***************************************************************************)
Runs == 1..Len(runs)

RECURSIVE SumRowsMinusOne(_)
SumRowsMinusOne(texts) ==
  IF texts = <<>> THEN 0
  ELSE (Len(ParseRows(Head(texts))) - 1) + SumRowsMinusOne(Tail(texts))

\* C1: a response with a failure status other than 429 ends the transport
\* for that image at once: the callback is neither waiting for a backoff
\* timer nor issuing another request once such a status has been received.
C1_NoRetryAfterFailureStatus ==
  \A r \in Runs :
    runs[r].apiResponse \notin {"undefined", "200", "429"} => runs[r].pc = "hung"

\* C2: once the transport of an image has failed terminally the error state
\* shows a terminal error message.
C2_TerminalErrorSurfaced ==
  \A r \in Runs : runs[r].fail = "transport" => error \in TerminalErrors

\* C3: after the transport of image i has failed terminally the run stays at
\* image i, issues no further request, and no merge changes the Dataset: the
\* failing step leaves it alone and later it changes by cell edits only.
C3_AbortAfterTransportFailure ==
  [][ /\ \A r \in Runs :
           runs[r].fail = "transport" =>
             /\ runs[r].idx = runs[r].failedAt
             /\ r \in 1..Len(runs')
             /\ runs'[r] = runs[r]
             /\ history' = history
             /\ (allExtracted' # allExtracted => editLog' # editLog)
      /\ \A r \in Runs \cap (1..Len(runs')) :
           (runs'[r].fail = "transport" /\ runs[r].fail # "transport") =>
             /\ allExtracted' = allExtracted
             /\ history' = history
             /\ runs'[r].attempts = runs[r].attempts
    ]_vars

C3_Witness ==
  \E r \in Runs :
    /\ runs[r].fail = "transport"
    /\ runs[r].failedAt = 1
    /\ Len(runs[r].batch) = 2
    /\ runs[r].pc = "hung"

\* C4: no image gets more than maxRetries requests, and when the attempt
\* counter reaches maxRetries the transport has failed after exactly
\* maxRetries requests.
C4_AtMostMaxRetriesRequests ==
  \A r \in Runs :
    /\ runs[r].attempts <= maxRetries
    /\ runs[r].retries >= maxRetries =>
         /\ runs[r].pc = "hung"
         /\ runs[r].fail = "transport"
         /\ runs[r].attempts = maxRetries

C4_Witness ==
  \E r \in Runs :
    /\ runs[r].pc = "hung"
    /\ runs[r].retries = maxRetries
    /\ runs[r].attempts = maxRetries
    /\ Len(runs[r].delays) = maxRetries

\* C5: at most one request is in flight, at most one run is under way, and a
\* run works on image i only when the cycles of the i-1 images before it
\* have completed.
C5_StrictlySequential ==
  /\ Cardinality({r \in Runs : runs[r].pc = "fetching"}) <= 1
  /\ Len(runs) <= 1
  /\ \A r \in Runs : runs[r].cycles = runs[r].idx - 1

C5_Witness ==
  \E r \in Runs :
    /\ runs[r].idx = 2
    /\ runs[r].pc = "fetching"
    /\ runs[r].cycles = 1
    /\ history # <<>>

\* C6: a merge into an empty Dataset makes it the parsed rows; a merge into
\* a non-empty Dataset keeps the existing rows as a prefix and appends the
\* parsed rows 1.. in order.
C6_MergePolicy ==
  [][ history' # history =>
        LET rows == ParseRows(extractedData')
            n == Len(allExtracted)
        IN  IF n = 0
              THEN allExtracted' = rows
              ELSE /\ Len(allExtracted') = n + Len(rows) - 1
                   /\ \A k \in 1..n : allExtracted'[k] = allExtracted[k]
                   /\ \A k \in 2..Len(rows) : allExtracted'[n + k - 1] = rows[k]
    ]_vars

C6_Witness ==
  /\ Len(history) = 2
  /\ Len(ParseRows(history[1])) = 2
  /\ Len(ParseRows(history[2])) = 3
  /\ Len(allExtracted) = 4
  /\ editLog = <<>>

\* C7: without edits, after N >= 1 merges the Dataset has
\* 1 + sum (rows of result i - 1) rows and its row 0 is row 0 of the first
\* merged result.
C7_LengthAfterMerges ==
  (history # <<>> /\ editLog = <<>>) =>
    /\ Len(allExtracted) = 1 + SumRowsMinusOne(history)
    /\ allExtracted[1] = ParseRows(history[1])[1]

C7_Witness ==
  /\ editLog = <<>>
  /\ Len(history) = 2
  /\ history[1] = history[2]
  /\ Len(allExtracted) = 3
  /\ allExtracted[2] = allExtracted[3]

\* C8: every row of the Dataset has as many cells as there are headers.
C8_RowsHaveSevenCells ==
  \A k \in 1..Len(allExtracted) : Len(allExtracted[k]) = Len(headers)

\* C9: once an image has been extracted, row 0 is the header and there is
\* one data row per extracted image, the k-th from the k-th such image.
C9_OneRowPerImage ==
  history # <<>> =>
    /\ Len(allExtracted) = 1 + Len(history)
    /\ editLog = <<>> =>
         /\ allExtracted[1] = headers
         /\ \A k \in 1..Len(history) :
              /\ Len(ParseRows(history[k])) = 2
              /\ allExtracted[k + 1] = ParseRows(history[k])[2]

\* C10: an edit of an existing cell sets that cell to the value and leaves
\* the number of rows, the length of every row and every other cell alone.
C10_EditOneCell ==
  [][ editLog' # editLog =>
        LET e == editLog'[Len(editLog')]
        IN  /\ Len(allExtracted') = Len(allExtracted)
            /\ \A r \in 1..Len(allExtracted) :
                 /\ Len(allExtracted'[r]) = Len(allExtracted[r])
                 /\ \A c \in 1..Len(allExtracted[r]) :
                      allExtracted'[r][c] =
                        IF r = e.rowIdx /\ c = e.colIdx
                          THEN e.value
                          ELSE allExtracted[r][c]
    ]_vars

C10_Witness ==
  /\ Len(editLog) = 1
  /\ Len(allExtracted) >= 2
  /\ editLog[1].rowIdx = 2
  /\ editLog[1].colIdx = 2
  /\ Len(allExtracted[2]) = Len(headers)
  /\ allExtracted[2][2] = editLog[1].value
  /\ allExtracted[2][1] # editLog[1].value

\* C11: handleExtract with an empty image list sets the validation error,
\* starts no run (so issues no request), leaves the Dataset as it is and
\* leaves the loading flag as it is.
C11_EmptyListRejected ==
  [][ (imageFiles = <<>> /\ HandleExtract) =>
        /\ error' = ErrNoImage
        /\ runs' = runs
        /\ allExtracted' = allExtracted
        /\ history' = history
        /\ loading' = loading
    ]_vars

C11_Witness ==
  /\ error = ErrNoImage
  /\ imageFiles = <<>>
  /\ allExtracted # <<>>
  /\ ~loading
  /\ runs = <<>>

\* C12: when the answer for image i holds no parts to read, the per-image
\* error is recorded, nothing is merged, and the run goes on to image i+1
\* (its reader started, no request made yet) or, after the last image,
\* ends with the loading flag reset.
C12_EmptyResultContinues ==
  [][ \A r \in Runs : \A result \in ResultsNoPath :
        JsonResolves(r, result) =>
          /\ error' = ErrNoExtract
          /\ allExtracted' = allExtracted
          /\ history' = history
          /\ IF runs[r].idx < Len(runs[r].batch)
               THEN /\ Len(runs') = Len(runs)
                    /\ runs'[r].idx = runs[r].idx + 1
                    /\ runs'[r].pc = "reading"
                    /\ runs'[r].attempts = 0
                    /\ runs'[r].fail = "none"
                    /\ loading'
               ELSE /\ Len(runs') = Len(runs) - 1
                    /\ ~loading'
    ]_vars

C12_Witness ==
  /\ error = ErrNoExtract
  /\ history = <<>>
  /\ \E r \in Runs :
       /\ runs[r].idx = 2
       /\ runs[r].cycles = 1
       /\ runs[r].pc = "fetching"
       /\ runs[r].attempts = 1

\* C13: an answer in which candidates[0].content.parts[0].text is absent at
\* any level is handled as an empty result: the per-image error is set and
\* the run is not left hanging.
C13_AbsentPathIsEmptyResult ==
  [][ \A r \in Runs : \A result \in ResultsNoPath \cup {ResultNoText} :
        JsonResolves(r, result) =>
          /\ error' = ErrNoExtract
          /\ r \in 1..Len(runs') => runs'[r].pc # "hung"
    ]_vars

\* a header line and one data line of seven cells
WellFormed(text) ==
  LET rows == ParseRows(text)
  IN  /\ Len(rows) = 2
      /\ rows[1] = headers
      /\ Len(rows[2]) = Len(headers)

\* C14: for a Dataset merged from N well-formed answers an export holds the
\* header line once, followed by one line per data row: 1 + N lines.
C14_ExportOneHeaderLine ==
  (/\ download # NoDownload
   /\ history # <<>>
   /\ editLog = <<>>
   /\ \A k \in 1..Len(history) : WellFormed(history[k])) =>
    LET lines == IF download.name = "extracted_data.csv"
                   THEN ParseRows(download.text)
                   ELSE download.sheet
    IN  /\ Len(lines) = 1 + Len(history)
        /\ lines[1] = headers
        /\ \A k \in 2..Len(lines) : lines[k] # headers

\* C15: an export fails exactly when the Dataset is empty, then setting the
\* validation error and offering no file; otherwise it offers a file and
\* leaves the error alone; it never touches the Dataset, the image list or
\* the runs (no request).
C15_ExportFailsOnlyWhenEmpty ==
  [][ (HandleDownloadCSV \/ HandleDownloadExcel) =>
        /\ IF allExtracted = <<>>
             THEN error' = ErrNoData /\ download' = NoDownload
             ELSE error' = error /\ download' # NoDownload
        /\ allExtracted' = allExtracted
        /\ imageFiles' = imageFiles
        /\ runs' = runs
    ]_vars

C15_Witness ==
  /\ error = ErrNoData
  /\ allExtracted = <<>>
  /\ download = NoDownload
  /\ imageFiles # <<>>

\* C16: no step makes the Dataset shorter or a row of it shorter.
C16_DatasetNeverShrinks ==
  [][ /\ Len(allExtracted') >= Len(allExtracted)
      /\ \A r \in 1..Len(allExtracted) :
           Len(allExtracted'[r]) >= Len(allExtracted[r])
    ]_vars

C16_Witness ==
  /\ submitted = 2
  /\ history # <<>>
  /\ allExtracted # <<>>
  /\ \E r \in Runs :
       /\ Len(runs[r].batch) = 1
       /\ runs[r].pc = "fetching"

\* C17: the k-th wait made for an image is 1000 * 2^(k-1) ms: the waits are
\* a prefix of 1000, 2000, 4000, 8000, 16000, and all five once the attempt
\* counter has reached maxRetries.
C17_BackoffDelays ==
  \A r \in Runs :
    /\ Len(runs[r].delays) <= 5
    /\ runs[r].delays =
         SubSeq(<<1000, 2000, 4000, 8000, 16000>>, 1, Len(runs[r].delays))
    /\ runs[r].retries = maxRetries => Len(runs[r].delays) = 5

C17_Witness ==
  \E r \in Runs : runs[r].delays = <<1000, 2000, 4000, 8000, 16000>>

\* what a request in flight leads to when it throws, and when it is
\* answered 429
AfterFault(run) == Caught(run)
AfterThrottle(run) == Backoff([run EXCEPT !.apiResponse = "429"])

\* C18: whatever the attempt counter, a request that throws and one that is
\* answered 429 lead to the same wait.
C18_FaultSameAsThrottle ==
  \A r \in Runs :
    runs[r].pc = "fetching" =>
      /\ AfterFault(runs[r]).pc = AfterThrottle(runs[r]).pc
      /\ AfterFault(runs[r]).delays = AfterThrottle(runs[r]).delays

\* C18 as amended: below the last attempt a fault and a 429 lead to the same
\* wait; at the last attempt (counter maxRetries - 1) a 429 still waits and
\* a fault is rethrown without a wait.  A transport that met only faults
\* gave up after maxRetries requests and maxRetries - 1 waits, one that was
\* throttled to the end after maxRetries requests and maxRetries waits.
C18_FaultSameBelowLastAttempt ==
  \A r \in Runs :
    /\ runs[r].pc = "fetching" =>
         /\ AfterThrottle(runs[r]).pc = "waiting"
         /\ Len(AfterThrottle(runs[r]).delays) = Len(runs[r].delays) + 1
         /\ AfterThrottle(runs[r]).retries = runs[r].retries
         /\ IF runs[r].retries < maxRetries - 1
              THEN /\ AfterFault(runs[r]).pc = "waiting"
                   /\ AfterFault(runs[r]).delays = AfterThrottle(runs[r]).delays
                   /\ AfterFault(runs[r]).retries = runs[r].retries
              ELSE /\ AfterFault(runs[r]).pc = "hung"
                   /\ AfterFault(runs[r]).fail = "transport"
                   /\ AfterFault(runs[r]).delays = runs[r].delays
    /\ (runs[r].fail = "transport" /\ runs[r].apiResponse = "undefined") =>
         /\ runs[r].attempts = maxRetries
         /\ Len(runs[r].delays) = maxRetries - 1
    /\ runs[r].retries = maxRetries =>
         /\ runs[r].attempts = maxRetries
         /\ Len(runs[r].delays) = maxRetries

C18_Witness ==
  \E r \in Runs :
    /\ runs[r].fail = "transport"
    /\ runs[r].apiResponse = "undefined"
    /\ runs[r].attempts = maxRetries
    /\ Len(runs[r].delays) = maxRetries - 1

\* the rows the merged answers hold: the first answer whole, the others
\* from their second row on
RECURSIVE MergedRows(_)
MergedRows(texts) ==
  IF texts = <<>> THEN <<>>
  ELSE IF Len(texts) = 1 THEN ParseRows(texts[1])
  ELSE MergedRows(SubSeq(texts, 1, Len(texts) - 1))
         \o Tail(ParseRows(texts[Len(texts)]))

EditsOf(r, c) ==
  {k \in 1..Len(editLog) : editLog[k].rowIdx = r /\ editLog[k].colIdx = c}

LastEditOf(r, c) ==
  CHOOSE k \in EditsOf(r, c) : \A j \in EditsOf(r, c) : j <= k

\* C19: no merge and no edit is lost: the Dataset holds the rows of all the
\* merged answers, and each cell holds the value of the last edit made to
\* it, or the merged value when it was never edited.
C19_NoLostUpdate ==
  LET merged == MergedRows(history)
  IN  /\ Len(allExtracted) = Len(merged)
      /\ \A r \in 1..Len(merged) :
           /\ Len(allExtracted[r]) = Len(merged[r])
           /\ \A c \in 1..Len(merged[r]) :
                allExtracted[r][c] =
                  IF EditsOf(r, c) # {}
                    THEN editLog[LastEditOf(r, c)].value
                    ELSE merged[r][c]

\* an edit made after the first merge of a batch of two, with the request
\* of the second image pending
C19_Witness ==
  /\ Len(editLog) = 1
  /\ Len(history) = 1
  /\ allExtracted[editLog[1].rowIdx][editLog[1].colIdx] = editLog[1].value
  /\ \E r \in Runs :
       /\ Len(runs[r].batch) = 2
       /\ runs[r].idx = 2
       /\ runs[r].pc = "json"

\* C20: a batch under way can always take a step: while the loading flag is
\* set some run is reading, fetching, waiting or parsing, so that the flag
\* is reset in the end.
C20_BatchNeverStuck ==
  loading =>
    \E r \in Runs : runs[r].pc \in {"reading", "fetching", "waiting", "json"}

====
